---- MODULE Spec2Model ----
\* A model of empower-simple-xmlrpc.py: the SimpleApp XML-RPC endpoint, its
\* callback registry, the REST primitives (wtp_up, wtps, summary) over one
\* shared HTTP connection, and the self re-arming poller (run / loop / Timer).
EXTENDS Integers, Sequences, FiniteSets, TLC

\* ---------------------------------------------------------------- bounds
\* Poller chains (a pending Timer, or a thread executing run) alive at once.
MaxPollers == 1

\* ------------------------------------------------------- program constants
BT_L20 == 0
BT_HT20 == 1
BT_HT40 == 2

L20 == "L20"
HT20 == "HT20"
HT40 == "HT40"

BANDS == (BT_L20 :> L20) @@ (BT_HT20 :> HT20) @@ (BT_HT40 :> HT40)

\* REVERSE_BANDS with the codes of the two HT bands exchanged.
REVERSE_BANDS_swapped == (L20 :> BT_L20) @@ (HT20 :> BT_HT40) @@ (HT40 :> BT_HT20)

REVERSE_BANDS == (L20 :> BT_L20) @@ (HT20 :> BT_HT20) @@ (HT40 :> BT_HT40)

xmlrpc_url == "http://127.0.0.1:8000/RPC2"

tenant_id == "52313ecb-9d00-4b7d-b873-b55d3d9ada26"

\* ------------------------------------------------------------ the threads
\* The main thread (main(): SimpleApp(...), run(), serve_forever()) and the
\* threads threading.Timer starts, one per armed timer.
MainThread == 0

TimerThreads == 1..MaxPollers

Threads == {MainThread} \cup TimerThreads

\* ------------------------------------------- what the controller answers
\* Radio descriptors and access points of GET .../wtps.
Radio1 == [hwaddr |-> "00:0D:B9:2F:56:58", channel |-> 1, band |-> L20, addr |-> "wtp1"]

Radio2 == [hwaddr |-> "00:0D:B9:2F:56:5C", channel |-> 36, band |-> HT20, addr |-> "wtp1"]

Radio3 == [hwaddr |-> "00:0D:B9:2F:63:78", channel |-> 6, band |-> HT40, addr |-> "wtp2"]

Wtp0 == [addr |-> "wtp0", supports |-> <<>>]

Wtp1 == [addr |-> "wtp1", supports |-> <<Radio1, Radio2>>]

Wtp2 == [addr |-> "wtp2", supports |-> <<Radio3>>]

\* Response payloads as read from the socket: nothing, a page that is no JSON,
\* a JSON object, and JSON arrays of access points.
BodyEmpty == ""

BodyHtml == "<html><body>not JSON</body></html>"

BodyObject == "{\"message\": \"error\"}"

BodyNoWtps == "[]"

BodyWtps == "[wtp1{radio1,radio2}, wtp0{}, wtp2{radio3}]"

Bodies == {BodyEmpty, BodyHtml, BodyObject, BodyNoWtps, BodyWtps}

Statuses == {200, 201, 503}

\* print("%s %s" % response) for response = (code, reason): the two printed
\* fields.
status_line(code) ==
    CASE code = 200 -> <<"200", "OK">>
      [] code = 201 -> <<"201", "Created">>
      [] OTHER -> <<"503", "Service Unavailable">>

\* json.loads of a response payload: the parsed value, or the error raised.
\* kind is "list", "dict" or "JSONDecodeError".
loads_body(resp) ==
    CASE resp = BodyNoWtps -> [kind |-> "list", wtps |-> <<>>]
      [] resp = BodyWtps -> [kind |-> "list", wtps |-> <<Wtp1, Wtp0, Wtp2>>]
      [] resp = BodyObject -> [kind |-> "dict", wtps |-> <<>>]
      [] OTHER -> [kind |-> "JSONDecodeError", wtps |-> <<>>]

\* execute(): the value returned next to (code, reason), or the error raised:
\* None for an empty payload, the parsed JSON otherwise.
execute_data(resp) ==
    IF resp = BodyEmpty THEN [kind |-> "None", wtps |-> <<>>] ELSE loads_body(resp)

\* ------------------------------------------------- inbound call arguments
ArgObject == "{\"addr\": \"wtp1\"}"

ArgNumber == "7"

ArgBad == "{addr"

\* json.loads of one inbound argument.
json_loads(arg) ==
    CASE arg = ArgObject -> [type |-> "dict", addr |-> "wtp1"]
      [] arg = ArgNumber -> [type |-> "int", addr |-> ""]
      [] OTHER -> [type |-> "JSONDecodeError", addr |-> ""]

\* The parameter lists an inbound caller sends: none, one or two arguments,
\* with the undecodable one in every position.
ParamLists ==
    {<<>>, <<ArgObject>>, <<ArgNumber>>, <<ArgBad>>, <<ArgObject, ArgNumber>>,
     <<ArgNumber, ArgObject>>, <<ArgObject, ArgBad>>, <<ArgBad, ArgObject>>}

\* The for loop of _dispatch ending at the first undecodable argument instead
\* of raising.
RECURSIVE decode_args_until_bad(_, _)
decode_args_until_bad(params, new_args) ==
    IF params = <<>> THEN [ok |-> TRUE, args |-> new_args]
    ELSE LET v == json_loads(Head(params))
         IN IF v.type = "JSONDecodeError"
            THEN [ok |-> TRUE, args |-> new_args]
            ELSE decode_args_until_bad(Tail(params), Append(new_args, v))

\* The for loop of _dispatch: arguments are decoded left to right and the
\* first undecodable one raises, leaving new_args unfinished.
RECURSIVE decode_args(_, _)
decode_args(params, new_args) ==
    IF params = <<>> THEN [ok |-> TRUE, args |-> new_args]
    ELSE LET v == json_loads(Head(params))
         IN IF v.type = "JSONDecodeError"
            THEN [ok |-> FALSE, args |-> new_args]
            ELSE decode_args(Tail(params), Append(new_args, v))

\* ------------------------------------------------------ attributes of self
\* The attributes of a SimpleApp object over the names an inbound caller may
\* send: the methods SimpleApp defines, a data attribute, and a name that is
\* no attribute. arity counts the parameters after self.
MethodNames == {"wtp_up_callback", "summary_callback", "run", "loop", "wtps",
                "wtp_up", "summary", "tenant_id", "no_such_method"}

attributes(method) ==
    CASE method = "wtp_up_callback" -> [kind |-> "method", func |-> "SimpleApp.wtp_up_callback", arity |-> 1]
      [] method = "summary_callback" -> [kind |-> "method", func |-> "SimpleApp.summary_callback", arity |-> 1]
      [] method = "run" -> [kind |-> "method", func |-> "SimpleApp.run", arity |-> 0]
      [] method = "loop" -> [kind |-> "method", func |-> "SimpleApp.loop", arity |-> 0]
      [] method = "wtps" -> [kind |-> "method", func |-> "SimpleApp.wtps", arity |-> 0]
      [] method = "wtp_up" -> [kind |-> "method", func |-> "SimpleApp.wtp_up", arity |-> 1]
      [] method = "summary" -> [kind |-> "method", func |-> "SimpleApp.summary", arity |-> 2]
      [] method = "tenant_id" -> [kind |-> "data", func |-> "str", arity |-> 0]
      [] OTHER -> [kind |-> "AttributeError", func |-> "", arity |-> 0]

\* A lookup that resolves every callback name to the first callback.
getattr_first_callback(method) ==
    IF method = "summary_callback" THEN attributes("wtp_up_callback") ELSE attributes(method)

\* func = getattr(self, method) in _dispatch; AttributeError when absent.
getattr(method) == attributes(method)

\* callback.__name__ of a bound method.
callback_name(callback) ==
    CASE callback = "SimpleApp.wtp_up_callback" -> "wtp_up_callback"
      [] callback = "SimpleApp.summary_callback" -> "summary_callback"
      [] OTHER -> callback

\* ------------------------------------------------------------ the registry
\* self.funcs, the dict register_function fills: entries in insertion order,
\* one per name.
Names(fs) == {fs[i].name : i \in 1..Len(fs)}

Lookup(fs, name) == fs[CHOOSE i \in 1..Len(fs) : fs[i].name = name].func

\* register_function adding an entry without looking for the name.
register_function_append(fs, callback) ==
    Append(fs, [name |-> callback_name(callback), func |-> callback])

register_function(fs, callback) ==
    LET name == callback_name(callback)
    IN IF name \in Names(fs)
       THEN [i \in 1..Len(fs) |->
                IF fs[i].name = name THEN [name |-> name, func |-> callback] ELSE fs[i]]
       ELSE Append(fs, [name |-> name, func |-> callback])

\* ----------------------------------------------------------------- state
\* args.tenant_id when -w is not given.
None == "None"

\* The command lines tried: -w absent, not a UUID, a UUID; -t http or not.
TenantIds == {None, "not-a-uuid", tenant_id}

Transports == {"http", "https"}

\* UUID(hex): TypeError without a value, ValueError for a badly formed string.
UUID(hex) ==
    IF hex = None THEN [ok |-> FALSE, exc |-> "TypeError"]
    ELSE IF hex = tenant_id THEN [ok |-> TRUE, exc |-> ""]
    ELSE [ok |-> FALSE, exc |-> "ValueError"]

\* get_connection() giving a connection whatever the transport.
get_connection_any(transport) == [ok |-> TRUE, exc |-> ""]

\* get_connection(args), up to the connection object.
get_connection(transport) ==
    IF transport = "http" THEN [ok |-> TRUE, exc |-> ""]
    ELSE [ok |-> FALSE, exc |-> "ValueError"]

VARIABLES
    args,    \* the parsed command line (tenant_id, transport)
    ctx,     \* per thread: where it is in main / run / loop / _dispatch
    funcs,   \* the callback registry (self.funcs)
    timers,  \* threading.Timer objects started and not yet fired
    told,    \* callback names the controller has received in a POST body
    ev       \* what the last step did (its inputs, prints, calls, outcome)

vars == <<args, ctx, funcs, timers, told, ev>>

NoBlock == [hwaddr |-> "", channel |-> 0, band |-> 0, wtp |-> ""]

\* No request; also the shape of one: cmd = (verb, url) and the fields of data.
NoRequest ==
    [verb |-> "", url |-> <<>>, version |-> "", block |-> NoBlock, callback |-> <<>>]

\* A thread outside every SimpleApp call. pc: "start" (main() with the
\* command line parsed), "new" (main() before SimpleApp(...)), "wait" (blocked in getresponse), "serve" (serve_forever,
\* between two inbound calls), "free" (no such timer thread), "dead" (the
\* process ended on an unhandled error of the main thread).
Idle(pc) ==
    [pc |-> pc, op |-> "none", frame |-> "none", root |-> "none",
     req |-> NoRequest, cb |-> "", data |-> <<>>, outer |-> <<>>, inner |-> <<>>,
     issued |-> <<>>]

NoEvent ==
    [kind |-> "none", who |-> MainThread, op |-> "none", status |-> 0, body |-> "",
     exc |-> "", printed |-> <<>>, registered |-> "", returned |-> FALSE,
     method |-> "", params |-> <<>>, calls |-> <<>>, result |-> "",
     cycle |-> "", issued |-> <<>>, data |-> <<>>, armed |-> FALSE,
     frame |-> "none", req |-> NoRequest]

\* The url templates '/api/v1/tenants/%s/...' % self.tenant_id.
url_wtps == <<"/api/v1/tenants", tenant_id, "wtps">>

url_wtpup == <<"/api/v1/tenants", tenant_id, "wtpup">>

url_summary == <<"/api/v1/tenants", tenant_id, "summary">>

\* Another thread has a request outstanding on self.connection.
Busy(c) == \E d \in Threads \ {c} : ctx[d].pc = "wait"

\* connection.request on the shared HTTPConnection: it goes out (sent), or,
\* when another thread is using the connection, it may raise instead.
CanSend(c, sent) == sent \/ Busy(c)

\* Poller chains alive: pending timers plus threads inside __init__ / run.
Pollers == timers + Cardinality({c \in Threads : ctx[c].frame \in {"init", "run"}})

\* ------------------------------------------------------------- operations
\* The operators below take and return the outcome s of a step under way:
\* s.cx the running thread, s.funcs, s.timers, s.told and s.ev as they are so
\* far in the step.

\* An exception of an inbound call leaving serve_forever as it leaves main()
\* before it: the process ends.
raise_through_server(s, exc) ==
    [s EXCEPT
        !.cx = IF s.cx.root \in {"startup", "dispatch"} THEN Idle("dead") ELSE Idle("free"),
        !.ev.exc = exc,
        !.ev.cycle = IF s.cx.frame \in {"run", "loop"} THEN "raised" ELSE "",
        !.ev.issued = s.cx.issued,
        !.ev.data = s.cx.data,
        !.ev.frame = s.cx.frame]

\* An exception leaves the outermost call. In main() before serve_forever it
\* ends the process; in a timer thread it ends the thread; inside an inbound
\* call the XML-RPC server turns it into a Fault and goes on serving.
raise(s, exc) ==
    [s EXCEPT
        !.cx = IF s.cx.root = "startup" THEN Idle("dead")
               ELSE IF s.cx.root = "dispatch" THEN Idle("serve")
               ELSE Idle("free"),
        !.ev.exc = exc,
        !.ev.result = IF s.cx.root = "dispatch" THEN "Fault" ELSE "",
        !.ev.cycle = IF s.cx.frame \in {"run", "loop"} THEN "raised" ELSE "",
        !.ev.issued = s.cx.issued,
        !.ev.data = s.cx.data,
        !.ev.frame = s.cx.frame]

\* The outermost call returns: run() first starts the Timer for the next
\* run(); then main() goes on to serve_forever, an inbound call returns to the
\* server, a timer thread ends.
return(s) ==
    [s EXCEPT
        !.cx = IF s.cx.root = "timer" THEN Idle("free") ELSE Idle("serve"),
        !.timers = IF s.cx.frame = "run" THEN @ + 1 ELSE @,
        !.ev.armed = (s.cx.frame = "run"),
        !.ev.result = IF s.cx.root = "dispatch" THEN "ok" ELSE "",
        !.ev.cycle = IF s.cx.frame \in {"run", "loop"} THEN "done" ELSE "",
        !.ev.issued = s.cx.issued,
        !.ev.data = s.cx.data,
        !.ev.frame = s.cx.frame]

\* wtps(), up to the request: GET .../wtps.
wtps(s, sent) ==
    IF sent
    THEN [s EXCEPT !.cx.pc = "wait", !.cx.op = "wtps",
                   !.cx.req = [NoRequest EXCEPT !.verb = "GET", !.url = url_wtps]]
    ELSE raise(s, "CannotSendRequest")

\* wtp_up(callback), up to the request: POST .../wtpup with the callback
\* descriptor (self.xmlrpc_url, callback.__name__).
wtp_up(s, callback, sent) ==
    LET data == [NoRequest EXCEPT !.verb = "POST", !.url = url_wtpup, !.version = "1.0",
                                  !.callback = <<xmlrpc_url, callback_name(callback)>>]
    IN IF sent
       THEN [s EXCEPT !.cx.pc = "wait", !.cx.op = "wtp_up", !.cx.req = data,
                      !.cx.cb = callback, !.told = @ \cup {data.callback[2]}]
       ELSE raise(s, "CannotSendRequest")

\* summary(block, callback) announcing its own name instead of the callback's.
summary_own_name(s, block, callback, sent) ==
    LET data == [NoRequest EXCEPT !.verb = "POST", !.url = url_summary, !.version = "1.0",
                                  !.block = block,
                                  !.callback = <<xmlrpc_url, "summary">>]
    IN IF sent
       THEN [s EXCEPT !.cx.pc = "wait", !.cx.op = "summary", !.cx.req = data,
                      !.cx.cb = callback, !.cx.issued = Append(@, block),
                      !.told = @ \cup {data.callback[2]}]
       ELSE raise(s, "CannotSendRequest")

\* summary(block, callback), up to the request: POST .../summary with the
\* block and the callback descriptor.
summary(s, block, callback, sent) ==
    LET data == [NoRequest EXCEPT !.verb = "POST", !.url = url_summary, !.version = "1.0",
                                  !.block = block,
                                  !.callback = <<xmlrpc_url, callback_name(callback)>>]
    IN IF sent
       THEN [s EXCEPT !.cx.pc = "wait", !.cx.op = "summary", !.cx.req = data,
                      !.cx.cb = callback, !.cx.issued = Append(@, block),
                      !.told = @ \cup {data.callback[2]}]
       ELSE raise(s, "CannotSendRequest")

\* The two for statements of loop(): the next entry of the current access
\* point's 'supports', else of the next access point that has one.
RECURSIVE next_entry(_, _)
next_entry(outer, inner) ==
    IF inner # <<>>
    THEN [found |-> TRUE, entry |-> Head(inner), outer |-> outer, inner |-> Tail(inner)]
    ELSE IF outer # <<>>
    THEN next_entry(Tail(outer), Head(outer).supports)
    ELSE [found |-> FALSE, entry |-> Radio1, outer |-> <<>>, inner |-> <<>>]

\* The body of loop()'s inner for: the block built from one entry.
make_block(entry) ==
    [hwaddr |-> entry.hwaddr, channel |-> entry.channel,
     band |-> REVERSE_BANDS[entry.band], wtp |-> entry.addr]

\* loop() from the top of its for statements: summary for the next entry, or
\* the end of loop().
loop(s, sent) ==
    LET n == next_entry(s.cx.outer, s.cx.inner)
    IN IF n.found
       THEN summary([s EXCEPT !.cx.outer = n.outer, !.cx.inner = n.inner],
                    make_block(n.entry), "SimpleApp.summary_callback", sent)
       ELSE return(s)

\* wtp_up() registering the callback only when the POST was answered 201.
wtp_up_done_if_created(s, status, sent) ==
    LET s1 == [s EXCEPT !.funcs = IF status = 201 THEN register_function(@, s.cx.cb) ELSE @,
                        !.ev.printed = IF status # 201 THEN status_line(status) ELSE <<>>,
                        !.ev.registered = IF status = 201 THEN callback_name(s.cx.cb) ELSE "",
                        !.ev.returned = TRUE,
                        !.cx.frame = "run"]
    IN wtps(s1, sent)

\* wtp_up() once execute() has returned: report a status other than 201,
\* register the callback. __init__ then returns and main() calls run().
wtp_up_done(s, status, sent) ==
    LET s1 == [s EXCEPT !.funcs = register_function(@, s.cx.cb),
                        !.ev.printed = IF status # 201 THEN status_line(status) ELSE <<>>,
                        !.ev.registered = callback_name(s.cx.cb),
                        !.ev.returned = TRUE,
                        !.cx.frame = "run"]
    IN wtps(s1, sent)

\* summary() registering the callback only when the POST was answered 201.
summary_done_if_created(s, status, sent) ==
    LET s1 == [s EXCEPT !.funcs = IF status = 201 THEN register_function(@, s.cx.cb) ELSE @,
                        !.ev.printed = IF status # 201 THEN status_line(status) ELSE <<>>,
                        !.ev.registered = IF status = 201 THEN callback_name(s.cx.cb) ELSE "",
                        !.ev.returned = TRUE]
    IN loop(s1, sent)

\* summary() registering a handler of its own for every radio.
summary_done_per_radio(s, status, sent) ==
    LET s1 == [s EXCEPT !.funcs = register_function(@, s.cx.req.block.hwaddr),
                        !.ev.printed = IF status # 201 THEN status_line(status) ELSE <<>>,
                        !.ev.registered = s.cx.req.block.hwaddr,
                        !.ev.returned = TRUE]
    IN loop(s1, sent)

\* summary() once execute() has returned: report a status other than 201,
\* register the callback; loop() goes on.
summary_done(s, status, sent) ==
    LET s1 == [s EXCEPT !.funcs = register_function(@, s.cx.cb),
                        !.ev.printed = IF status # 201 THEN status_line(status) ELSE <<>>,
                        !.ev.registered = callback_name(s.cx.cb),
                        !.ev.returned = TRUE]
    IN loop(s1, sent)

\* wtps() once execute() has returned: report a status other than 200 and
\* return data. Called from loop(), data is then iterated: None and the keys
\* of a JSON object raise TypeError.
wtps_done(s, status, data, sent) ==
    LET s1 == [s EXCEPT !.ev.printed = IF status # 200 THEN status_line(status) ELSE <<>>,
                        !.ev.returned = TRUE]
    IN IF s.cx.frame = "wtps" THEN return(s1)
       ELSE IF data.kind # "list" THEN raise(s1, "TypeError")
       ELSE loop([s1 EXCEPT !.cx.data = data.wtps, !.cx.outer = data.wtps,
                            !.cx.inner = <<>>], sent)

\* execute() from getresponse() on, and the caller's code after it.
execute_done(s, status, resp, sent) ==
    LET data == execute_data(resp)
    IN IF data.kind = "JSONDecodeError" THEN raise(s, "JSONDecodeError")
       ELSE IF s.cx.op = "wtp_up" THEN wtp_up_done(s, status, sent)
       ELSE IF s.cx.op = "summary" THEN summary_done(s, status, sent)
       ELSE wtps_done(s, status, data, sent)

\* func(*new_args) for a method of SimpleApp whose parameters match. wtp_up
\* and summary raise AttributeError at callback.__name__: a decoded JSON value
\* has no such attribute.
call(s, func, new_args, sent) ==
    CASE func = "SimpleApp.wtp_up_callback" ->
            IF new_args[1].type = "dict"
            THEN return([s EXCEPT !.ev.printed =
                            <<"Tenant", tenant_id, "WTP", new_args[1].addr, "is up">>])
            ELSE raise(s, "TypeError")
      [] func = "SimpleApp.summary_callback" ->
            return([s EXCEPT !.ev.printed = <<"ciao", new_args[1].type, new_args[1].addr>>])
      [] func = "SimpleApp.run" -> wtps([s EXCEPT !.cx.frame = "run"], sent)
      [] func = "SimpleApp.loop" -> wtps([s EXCEPT !.cx.frame = "loop"], sent)
      [] func = "SimpleApp.wtps" -> wtps([s EXCEPT !.cx.frame = "wtps"], sent)
      [] OTHER -> raise(s, "AttributeError")

\* _dispatch(method, params). s.ev.calls is the call func(*new_args) when
\* _dispatch comes to make it; with the wrong number of arguments for func the
\* call raises TypeError.
dispatch(s, method, params, sent) ==
    LET a == getattr(method)
        d == decode_args(params, <<>>)
        s1 == [s EXCEPT !.ev.calls = <<[func |-> a.func, args |-> d.args]>>]
    IN IF a.kind = "AttributeError" THEN raise(s, "method is not supported")
       ELSE IF ~d.ok THEN raise(s, "JSONDecodeError")
       ELSE IF a.kind # "method" THEN raise(s, "TypeError")
       ELSE IF Len(d.args) # a.arity THEN raise(s1, "TypeError")
       ELSE call(s1, a.func, d.args, sent)

\* ---------------------------------------------------------------- actions
Outcome(c, cx, e) ==
    [cx |-> cx, funcs |-> funcs, timers |-> timers, told |-> told, ev |-> e]

Commit(c, s) ==
    /\ ctx' = [ctx EXCEPT ![c] = s.cx]
    /\ funcs' = s.funcs
    /\ timers' = s.timers
    /\ told' = s.told
    /\ ev' = s.ev
    /\ UNCHANGED args

\* main() from the parsed arguments to get_connection(args): an exception of
\* UUID() or get_connection() ends the process.
main ==
    /\ ctx[MainThread].pc = "start"
    /\ LET u == UUID(args.tenant_id)
           g == get_connection(args.transport)
           exc == IF ~u.ok THEN u.exc ELSE IF ~g.ok THEN g.exc ELSE ""
       IN Commit(MainThread,
                 Outcome(MainThread, Idle(IF exc = "" THEN "new" ELSE "dead"),
                         [NoEvent EXCEPT !.kind = "main", !.exc = exc]))

\* main(): SimpleApp(connection, headers, tenant_id); __init__ calls
\* wtp_up(callback=self.wtp_up_callback).
Construct ==
    /\ ctx[MainThread].pc = "new"
    /\ Commit(MainThread,
              wtp_up(Outcome(MainThread,
                             [Idle("new") EXCEPT !.root = "startup", !.frame = "init"],
                             [NoEvent EXCEPT !.kind = "construct"]),
                     "SimpleApp.wtp_up_callback", TRUE))

\* The controller answers the request thread c waits on.
Respond(c, status, resp, sent) ==
    /\ ctx[c].pc = "wait"
    /\ CanSend(c, sent)
    /\ Commit(c, execute_done(
                    Outcome(c, ctx[c],
                            [NoEvent EXCEPT !.kind = "response", !.who = c, !.op = ctx[c].op,
                                            !.status = status, !.body = resp,
                                            !.frame = ctx[c].frame,
                                            !.req = ctx[c].req]),
                    status, resp, sent))

\* A Timer fires: its thread (the lowest unused thread identity) calls run().
TimerFire(w, sent) ==
    /\ timers > 0
    /\ ctx[w].pc = "free"
    /\ \A v \in TimerThreads : v < w => ctx[v].pc # "free"
    /\ CanSend(w, sent)
    /\ Commit(w, wtps([Outcome(w, [Idle("free") EXCEPT !.root = "timer", !.frame = "run"],
                               [NoEvent EXCEPT !.kind = "timer", !.who = w])
                           EXCEPT !.timers = @ - 1],
                      sent))

\* serve_forever takes one inbound call and hands it to _dispatch. Whether a
\* request goes out is a choice only for the calls that send one; inbound
\* run is taken while fewer than MaxPollers poller chains are alive.
Dispatch(method, params, sent) ==
    /\ ctx[MainThread].pc = "serve"
    /\ CanSend(MainThread, sent)
    /\ ~sent => (method \in {"run", "loop", "wtps"} /\ params = <<>>)
    /\ method = "run" => Pollers < MaxPollers
    /\ Commit(MainThread,
              dispatch(Outcome(MainThread, [Idle("serve") EXCEPT !.root = "dispatch"],
                               [NoEvent EXCEPT !.kind = "dispatch", !.method = method,
                                               !.params = params]),
                       method, params, sent))

Init ==
    /\ args \in [tenant_id : TenantIds, transport : Transports]
    /\ ctx = [c \in Threads |-> IF c = MainThread THEN Idle("start") ELSE Idle("free")]
    /\ funcs = <<>>
    /\ timers = 0
    /\ told = {}
    /\ ev = NoEvent

Next ==
    \/ main
    \/ Construct
    \/ \E c \in Threads, status \in Statuses, resp \in Bodies, sent \in BOOLEAN :
          Respond(c, status, resp, sent)
    \/ \E w \in TimerThreads, sent \in BOOLEAN : TimerFire(w, sent)
    \/ \E method \in MethodNames, params \in ParamLists, sent \in BOOLEAN :
          Dispatch(method, params, sent)

Spec == Init /\ [][Next]_vars

\* A started Timer fires after self.every / 1000 seconds, and every request
\* sent is answered.
FairSpec ==
    /\ Spec
    /\ WF_vars(\E w \in TimerThreads, sent \in BOOLEAN : TimerFire(w, sent))
    /\ \A c \in Threads :
          WF_vars(\E status \in Statuses, resp \in Bodies, sent \in BOOLEAN :
                    Respond(c, status, resp, sent))

\* ----------------------------------------------------------------- claims
RegisterThenTrigger == {"wtp_up", "summary"}

\* C1: an inbound call whose name is not in the registry ends in an error
\* returned to the caller ('method is not supported'), and no handler and no
\* other method of the application is called.
C1_UnregisteredNameRejected ==
    (ev.kind = "dispatch" /\ ev.method \notin Names(funcs))
        => (ev.result = "Fault" /\ ev.calls = <<>>)

\* C2: every callback name the controller has been told in a POST body is
\* already in the registry.
C2_RegisteredBeforeAdvertised == \A name \in told : name \in Names(funcs)

\* C3: a polling cycle whose access-point list request is answered 503 reports
\* it, raises no error, and ends with the next cycle's Timer started.
C3_ListFailureSurvived ==
    (ev.kind = "response" /\ ev.op = "wtps" /\ ev.status = 503 /\ ev.frame = "run")
        => /\ ev.printed = <<"503", "Service Unavailable">>
           /\ ev.exc = ""
           /\ (ev.cycle # "" => ev.armed)

\* C4: when wtp_up or summary returns, whatever the status of the response, the
\* callback name its POST advertised is in the registry.
C4_RegisteredOnReturn ==
    (ev.kind = "response" /\ ev.op \in RegisterThenTrigger /\ ev.returned)
        => ev.req.callback[2] \in Names(funcs)

C4_Witness ==
    /\ ev.kind = "response" /\ ev.op = "summary" /\ ev.returned
    /\ ev.status = 503
    /\ ev.req.callback[2] = "summary_callback"
    /\ "summary_callback" \in Names(funcs)

\* A cycle of run() has just ended, by returning or by raising.
CycleOver == ev.cycle # "" /\ ev.frame = "run"

\* Some thread is in run() with the list request of its cycle sent.
ListRequested ==
    \E c \in Threads : ctx[c].pc = "wait" /\ ctx[c].op = "wtps" /\ ctx[c].frame = "run"

\* C5: the poller never stops: once a cycle of run() is over, the list request
\* of another cycle is eventually sent.
C5_PollerNeverStops == CycleOver ~> ListRequested

\* The radio entries of an access-point list, in list order.
RECURSIVE RadioEntries(_)
RadioEntries(wtps_list) ==
    IF wtps_list = <<>> THEN <<>>
    ELSE Head(wtps_list).supports \o RadioEntries(Tail(wtps_list))

BandCode(band) == CASE band = "L20" -> 0 [] band = "HT20" -> 1 [] band = "HT40" -> 2

ExpectedBlocks(wtps_list) ==
    LET entries == RadioEntries(wtps_list)
    IN [i \in 1..Len(entries) |->
            [hwaddr |-> entries[i].hwaddr, channel |-> entries[i].channel,
             band |-> BandCode(entries[i].band), wtp |-> entries[i].addr]]

\* C6: a cycle that got an access-point list has, when it is over, sent one
\* summary POST per radio entry of the list, in list order, each with the
\* entry's hwaddr, channel and wtp and with the code of the entry's band.
C6_OneSummaryPerRadio == ev.cycle # "" => ev.issued = ExpectedBlocks(ev.data)

ValidJson(arg) == arg \in {ArgObject, ArgNumber}

AllValid(params) == \A i \in 1..Len(params) : ValidJson(params[i])

\* C7: an inbound call to a registered name whose arguments are all valid JSON
\* makes exactly one call, to the handler registered under the name, with the
\* decoded arguments in the order given.
C7_RegisteredHandlerCalled ==
    (ev.kind = "dispatch" /\ ev.method \in Names(funcs) /\ AllValid(ev.params))
        => ev.calls = <<[func |-> Lookup(funcs, ev.method),
                         args |-> [i \in 1..Len(ev.params) |-> json_loads(ev.params[i])]]>>

C7_Witness ==
    /\ ev.kind = "dispatch" /\ ev.method = "wtp_up_callback" /\ ev.params = <<ArgObject>>
    /\ "wtp_up_callback" \in Names(funcs)
    /\ ev.result = "ok"
    /\ ev.printed = <<"Tenant", tenant_id, "WTP", "wtp1", "is up">>

\* C8: an inbound call with an argument that is no valid JSON fails, calls
\* nothing (not even with the arguments before the bad one) and leaves the
\* registry as it was, the endpoint serving.
C8_BadArgumentFailsCleanly ==
    [][(ev'.kind = "dispatch" /\ ~AllValid(ev'.params))
          => /\ ev'.calls = <<>>
             /\ ev'.result = "Fault"
             /\ funcs' = funcs
             /\ ctx'[MainThread].pc = "serve"]_vars

C8_Witness ==
    /\ ev.kind = "dispatch" /\ ev.method = "wtp_up_callback"
    /\ ev.params = <<ArgObject, ArgBad>>
    /\ "wtp_up_callback" \in Names(funcs)
    /\ ev.exc = "JSONDecodeError" /\ ev.calls = <<>>

\* C9: a response other than 201 to the POST of wtp_up or summary is printed
\* and raises nothing: the caller (main(), loop()) goes on.
C9_Non201NotFatal ==
    (ev.kind = "response" /\ ev.op \in RegisterThenTrigger /\ ev.status # 201)
        => /\ ev.printed = status_line(ev.status)
           /\ ev.exc = ""
           /\ ctx[MainThread].pc # "dead"

NoDuplicates(fs) == \A i, j \in 1..Len(fs) : fs[i].name = fs[j].name => i = j

\* C10: no step removes a name from the registry, no name has two entries,
\* and after a registration the name maps to the handler just registered, the
\* registry one entry longer only if the name is new.
C10_RegistryOnlyGrows ==
    [][/\ \A name \in Names(funcs) : name \in Names(funcs')
       /\ NoDuplicates(funcs')
       /\ (ev'.kind = "response" /\ ev'.registered # "")
             => /\ ev'.registered \in Names(funcs')
                /\ Lookup(funcs', ev'.registered) = ctx[ev'.who].cb
                /\ Len(funcs') = IF ev'.registered \in Names(funcs)
                                 THEN Len(funcs) ELSE Len(funcs) + 1]_vars

C10_Witness ==
    /\ ev.kind = "response" /\ ev.op = "summary" /\ ev.registered = "summary_callback"
    /\ Len(ctx[ev.who].issued) = 3
    /\ Names(funcs) = {"wtp_up_callback", "summary_callback"}
    /\ Len(funcs) = 2

\* C11: with the tenant id missing or malformed, or a transport other than
\* 'http', main() ends on the exception before SimpleApp(...) is called: no
\* endpoint, no request sent, no callback announced or registered, no timer.
C11_BadArgumentsAbortStartup ==
    (args.tenant_id # tenant_id \/ args.transport # "http") =>
        /\ ctx[MainThread].pc \in {"start", "dead"}
        /\ \A c \in Threads : ctx[c].pc # "wait" /\ ctx[c].req = NoRequest
        /\ told = {} /\ funcs = <<>> /\ timers = 0
        /\ ctx[MainThread].pc = "dead" =>
              (ev.kind = "main" /\ ev.exc \in {"TypeError", "ValueError"})

C11_Witness ==
    /\ args.tenant_id = tenant_id
    /\ args.transport = "https"
    /\ ctx[MainThread].pc = "dead"
    /\ ev.kind = "main"
    /\ ev.exc = "ValueError"

FailedDispatch(e) ==
    e.kind = "dispatch" /\ (e.method = "no_such_method" \/ ~AllValid(e.params))

\* C12: an inbound call with a name that is no method, or with an argument
\* that is no valid JSON, is answered with an error and changes nothing else:
\* the main thread is back in serve_forever, the timer threads, the pending
\* timer and the registry are as before, and the next inbound call to a
\* registered name can be taken and calls its handler.
C12_FailedDispatchSurvived ==
    /\ [][FailedDispatch(ev') =>
             /\ ev'.result = "Fault"
             /\ ev'.exc \in {"method is not supported", "JSONDecodeError"}
             /\ ctx' = [ctx EXCEPT ![MainThread] = Idle("serve")]
             /\ timers' = timers
             /\ funcs' = funcs]_vars
    /\ [][(FailedDispatch(ev) /\ ev'.kind = "dispatch" /\ ev'.method \in Names(funcs)
            /\ AllValid(ev'.params))
             => ev'.calls = <<[func |-> Lookup(funcs, ev'.method),
                               args |-> [i \in 1..Len(ev'.params) |->
                                            json_loads(ev'.params[i])]]>>]_vars
    /\ [](FailedDispatch(ev) =>
             ENABLED Dispatch("wtp_up_callback", <<ArgObject>>, TRUE))

C12_Witness ==
    /\ ev.kind = "dispatch" /\ ev.method = "no_such_method" /\ ev.params = <<ArgObject>>
    /\ ev.result = "Fault"
    /\ ctx[MainThread].pc = "serve"
    /\ \E w \in TimerThreads : ctx[w].pc = "wait" /\ ctx[w].op = "summary"
    /\ "wtp_up_callback" \in Names(funcs)

\* C13: REVERSE_BANDS maps exactly the strings L20, HT20, HT40 and BANDS maps
\* exactly the codes 0, 1, 2; string -> code -> string and code -> string ->
\* code are the identity; and the code in every summary block sent maps back
\* to the band string of the radio entry the block was built from.
C13_BandRoundTrip ==
    /\ DOMAIN REVERSE_BANDS = {"L20", "HT20", "HT40"}
    /\ DOMAIN BANDS = {0, 1, 2}
    /\ \A band \in DOMAIN REVERSE_BANDS :
          REVERSE_BANDS[band] \in DOMAIN BANDS /\ BANDS[REVERSE_BANDS[band]] = band
    /\ \A code \in DOMAIN BANDS :
          BANDS[code] \in DOMAIN REVERSE_BANDS /\ REVERSE_BANDS[BANDS[code]] = code
    /\ \A c \in Threads :
          (ctx[c].pc = "wait" /\ ctx[c].op = "summary") =>
              BANDS[ctx[c].req.block.band] =
                  RadioEntries(ctx[c].data)[Len(ctx[c].issued)].band

C13_Witness ==
    \E c \in Threads :
        /\ ctx[c].pc = "wait" /\ ctx[c].op = "summary"
        /\ Len(ctx[c].issued) = 3
        /\ RadioEntries(ctx[c].data)[3].band = "HT40"
        /\ ctx[c].req.block.band = 2

CyclesInProgress == {c \in Threads : ctx[c].frame \in {"run", "loop"}}

InFlight == {c \in Threads : ctx[c].pc = "wait"}

\* C14: at any time at most one thread is inside a polling cycle (run or
\* loop), at most one Timer is pending, and at most one thread has a request
\* outstanding on the connection.
C14_OneCycleOneTimerOneRequest ==
    /\ Cardinality(CyclesInProgress) <= 1
    /\ timers <= 1
    /\ Cardinality(InFlight) <= 1

\* C15: an inbound call is taken only by a main thread in serve_forever; the
\* main thread gets there from startup only by run() returning, its first
\* cycle over and its Timer started, with wtp_up_callback registered; so
\* whenever an inbound call is dispatched, wtp_up_callback is in the registry,
\* and none is dispatched while main() is still starting up.
C15_NoDispatchBeforeStartupDone ==
    /\ [][ev'.kind = "dispatch" => ctx[MainThread].pc = "serve"]_vars
    /\ [][(ctx[MainThread].root = "startup" /\ ctx'[MainThread].pc = "serve")
             => /\ ev'.kind = "response" /\ ev'.who = MainThread /\ ev'.frame = "run"
                /\ ev'.cycle = "done" /\ ev'.armed
                /\ timers' = timers + 1
                /\ "wtp_up_callback" \in Names(funcs')]_vars
    /\ []((ev.kind = "dispatch" \/ ctx[MainThread].pc = "serve")
             => "wtp_up_callback" \in Names(funcs))
    /\ []((ctx[MainThread].pc \in {"start", "new"} \/ ctx[MainThread].root = "startup")
             => ev.kind # "dispatch")

C15_Witness ==
    /\ ev.kind = "dispatch" /\ ev.method = "wtp_up_callback" /\ ev.result = "ok"
    /\ Names(funcs) = {"wtp_up_callback"}
    /\ timers = 1
    /\ \A c \in Threads : ctx[c].pc # "wait"

\* C16: every wtp_up and summary request carries the endpoint's URL, and when
\* the operation returns, the name in its callback descriptor is the name it
\* registered, the registry maps that name to the handler passed to the
\* operation, and _dispatch resolves the name to that same handler; an
\* inbound one-argument call by an announced and registered name calls the
\* handler the registry holds.
C16_AdvertisedNameResolves ==
    /\ [](\A c \in Threads :
             (ctx[c].pc = "wait" /\ ctx[c].op \in RegisterThenTrigger)
                => ctx[c].req.callback[1] = "http://127.0.0.1:8000/RPC2")
    /\ [][(ev'.kind = "response" /\ ev'.op \in RegisterThenTrigger /\ ev'.returned)
             => /\ ev'.req.callback[1] = "http://127.0.0.1:8000/RPC2"
                /\ ev'.req.callback[2] = ev'.registered
                /\ ev'.registered \in Names(funcs')
                /\ Lookup(funcs', ev'.req.callback[2]) = ctx[ev'.who].cb
                /\ getattr(ev'.req.callback[2]) =
                      [kind |-> "method", func |-> ctx[ev'.who].cb, arity |-> 1]]_vars
    /\ [][(ev'.kind = "dispatch" /\ ev'.method \in told /\ ev'.method \in Names(funcs)
            /\ Len(ev'.params) = 1 /\ AllValid(ev'.params))
             => /\ Len(ev'.calls) = 1
                /\ ev'.calls[1].func = Lookup(funcs, ev'.method)]_vars

C16_Witness ==
    /\ ev.kind = "dispatch" /\ ev.method = "summary_callback" /\ ev.params = <<ArgObject>>
    /\ "summary_callback" \in told
    /\ "summary_callback" \in Names(funcs)
    /\ Lookup(funcs, "summary_callback") = "SimpleApp.summary_callback"
    /\ ev.calls = <<[func |-> "SimpleApp.summary_callback",
                     args |-> <<[type |-> "dict", addr |-> "wtp1"]>>]>>
    /\ ev.printed = <<"ciao", "dict", "wtp1">>

\* C17: the registry never holds a name other than wtp_up_callback and
\* summary_callback, so never more than two entries, and summary_callback at
\* most once however many summary requests were made.
C17_RegistryBounded ==
    /\ Names(funcs) \subseteq {"wtp_up_callback", "summary_callback"}
    /\ Len(funcs) <= 2
    /\ Cardinality({i \in 1..Len(funcs) : funcs[i].name = "summary_callback"}) <= 1

C17_Witness ==
    /\ ev.kind = "response" /\ ev.who \in TimerThreads /\ ev.op = "summary"
    /\ ev.cycle = "done" /\ Len(ev.issued) = 3
    /\ Len(funcs) = 2
    /\ funcs[2].name = "summary_callback"

====
